---- MODULE Spec2Model ----
(***************************************************************************)
(* Model of src/lib/native.cxx: the N-API entry point GetClangAST, the     *)
(* libclang child visitor Visit and the helpers GetCursorKindStr,          *)
(* CreateLocation and CreateTypeInfo.                                      *)
(*                                                                         *)
(* libclang and node-addon-api are external: the parser's answer for the  *)
(* given file (no translation unit, or a cursor tree) is an input drawn   *)
(* in Init, and their calls are modelled by their documented contracts.   *)
(* Cursor kind tags carry the numeric values of enum CXCursorKind in      *)
(* clang-c/Index.h (LLVM 21, the first release that has both              *)
(* CXCursor_OMPStripeDirective and CXCursor_OpenACCCacheConstruct).       *)
(***************************************************************************)
EXTENDS Integers, Sequences, FiniteSets, TLC

\* ------------------------------------------------------------------ bounds
\* Largest number of cursors in a generated cursor tree.
MaxCursors == 3
\* Largest number of elements of the compile-argument array.
MaxArgs == 2
\* Width in bits of `unsigned` in the model (32 in the build); `long long`
\* is twice as wide, as in the build (64).
UIntBits == 6

\* ------------------------------------------------- CXCursorKind tags used
CXCursor_StructDecl == 2
CXCursor_UnionDecl == 3
CXCursor_ClassDecl == 4
CXCursor_DeclRefExpr == 101
CXCursor_CallExpr == 103
CXCursor_OMPArrayShapingExpr == 150
CXCursor_OMPIteratorExpr == 151
CXCursor_OMPParallelDirective == 232
CXCursor_SEHLeaveStmt == 247
CXCursor_BuiltinBitCastExpr == 280
CXCursor_OMPStripeDirective == 310
CXCursor_OpenACCComputeConstruct == 320
CXCursor_OpenACCCacheConstruct == 333

\* enum CXLanguageKind: Invalid = 0, C = 1, ObjC = 2, CPlusPlus = 3
CXLanguage_ObjC == 2

\* Every tag of enum CXCursorKind (declarations, references, invalid,
\* expressions, statements, translation unit, attributes, preprocessing,
\* extra declarations, overload candidate).
AllKinds ==
  (1..50) \cup (70..73) \cup (100..156) \cup (200..310) \cup (320..333)
    \cup {350} \cup (400..441) \cup (500..503) \cup (600..604) \cup {700}

\* clang_isDeclaration: only declaration cursors have a language.
IsDeclarationKind(kind) == (kind >= 1 /\ kind <= 39) \/ (kind >= 600 /\ kind <= 604)

\* ------------------------------------------------------ GetCursorKindStr
\* The switch of GetCursorKindStr as <<tag, label>> pairs, in source order.
KindCases ==
  <<
      <<2, "RecordDecl">>,   \* CXCursor_StructDecl
      <<3, "RecordDecl">>,   \* CXCursor_UnionDecl
      <<4, "RecordDecl">>,   \* CXCursor_ClassDecl
      <<5, "EnumDecl">>,
      <<6, "FieldDecl">>,
      <<7, "EnumConstantDecl">>,
      <<8, "FunctionDecl">>,
      <<9, "VarDecl">>,
      <<10, "ParmVarDecl">>,   \* CXCursor_ParmDecl
      <<20, "TypedefDecl">>,
      <<21, "CXXMethod">>,
      <<22, "NamespaceDecl">>,   \* CXCursor_Namespace
      <<24, "CXXConstructorDecl">>,   \* CXCursor_Constructor
      <<25, "CXXDestructorDecl">>,   \* CXCursor_Destructor
      <<26, "CXXConversionDecl">>,   \* CXCursor_ConversionFunction
      <<27, "TemplateTypeParameter">>,
      <<28, "NonTypeTemplateParameter">>,
      <<29, "TemplateTemplateParameter">>,
      <<30, "FunctionTemplate">>,
      <<31, "ClassTemplate">>,
      <<32, "ClassTemplatePartialSpecialization">>,
      <<33, "NamespaceAlias">>,
      <<34, "UsingDirective">>,
      <<35, "UsingDeclaration">>,
      <<36, "TypeAliasDecl">>,
      <<39, "CXXAccessSpecifier">>,
      <<43, "TypeRef">>,
      <<45, "TemplateRef">>,
      <<46, "NamespaceRef">>,
      <<47, "MemberRef">>,
      <<48, "LabelRef">>,
      <<49, "OverloadedDeclRef">>,
      <<50, "VariableRef">>,
      <<101, "DeclRefExpr">>,
      <<102, "MemberExpr">>,   \* CXCursor_MemberRefExpr
      <<103, "CallExpr">>,
      <<105, "BlockExpr">>,
      <<106, "IntegerLiteral">>,
      <<107, "FloatingLiteral">>,
      <<108, "ImaginaryLiteral">>,
      <<109, "StringLiteral">>,
      <<110, "CharacterLiteral">>,
      <<111, "ParenExpr">>,
      <<112, "UnaryOperator">>,
      <<113, "ArraySubscriptExpr">>,
      <<114, "BinaryOperator">>,
      <<115, "CompoundAssignOperator">>,
      <<116, "ConditionalOperator">>,
      <<117, "CStyleCastExpr">>,
      <<118, "CompoundLiteralExpr">>,
      <<119, "InitListExpr">>,
      <<120, "AddrLabelExpr">>,
      <<121, "StmtExpr">>,
      <<122, "GenericSelectionExpr">>,
      <<123, "GNUNullExpr">>,
      <<124, "CXXStaticCastExpr">>,
      <<125, "CXXDynamicCastExpr">>,
      <<126, "CXXReinterpretCastExpr">>,
      <<127, "CXXConstCastExpr">>,
      <<128, "CXXFunctionalCastExpr">>,
      <<129, "CXXTypeidExpr">>,
      <<130, "CXXBoolLiteralExpr">>,
      <<131, "CXXNullPtrLiteralExpr">>,
      <<132, "CXXThisExpr">>,
      <<133, "CXXThrowExpr">>,
      <<134, "CXXNewExpr">>,
      <<135, "CXXDeleteExpr">>,
      <<136, "UnaryExpr">>,
      <<142, "PackExpansionExpr">>,
      <<143, "SizeOfPackExpr">>,
      <<144, "LambdaExpr">>,
      <<201, "LabelStmt">>,
      <<202, "CompoundStmt">>,
      <<203, "CaseStmt">>,
      <<204, "DefaultStmt">>,
      <<205, "IfStmt">>,
      <<206, "SwitchStmt">>,
      <<207, "WhileStmt">>,
      <<208, "DoStmt">>,
      <<209, "ForStmt">>,
      <<210, "GotoStmt">>,
      <<211, "IndirectGotoStmt">>,
      <<212, "ContinueStmt">>,
      <<213, "BreakStmt">>,
      <<214, "ReturnStmt">>,
      <<215, "AsmStmt">>,
      <<223, "CXXCatchStmt">>,
      <<224, "CXXTryStmt">>,
      <<225, "CXXForRangeStmt">>,
      <<230, "NullStmt">>,
      <<231, "DeclStmt">>,
      <<350, "TranslationUnitDecl">>,   \* CXCursor_TranslationUnit
      <<400, "UnexposedAttr">>,
      <<401, "IBActionAttr">>,
      <<402, "IBOutletAttr">>,
      <<403, "IBOutletCollectionAttr">>,
      <<404, "CXXFinalAttr">>,
      <<405, "CXXOverrideAttr">>,
      <<406, "AnnotateAttr">>,
      <<407, "AsmLabelAttr">>,
      <<408, "PackedAttr">>,
      <<409, "PureAttr">>,
      <<410, "ConstAttr">>,
      <<411, "NoDuplicateAttr">>,
      <<412, "CUDAConstantAttr">>,
      <<413, "CUDADeviceAttr">>,
      <<414, "CUDAGlobalAttr">>,
      <<415, "CUDAHostAttr">>,
      <<416, "CUDASharedAttr">>,
      <<417, "VisibilityAttr">>,
      <<418, "DLLExport">>,
      <<419, "DLLImport">>
  >>

KindTableTags == {KindCases[i][1] : i \in 1..Len(KindCases)}

KindLabel(kind) ==
  LET i == CHOOSE j \in 1..Len(KindCases) : KindCases[j][1] = kind
  IN  KindCases[i][2]

\* clang_getCursorKindSpelling: the parser's own, non-empty name of a kind.
KindSpelling(kind) == "clang:" \o ToString(kind)

\* A `const char *`: the text it points at and the CXString that owns the
\* storage ("static" for a string literal).
CStr(text, owner) == [text |-> text, owner |-> owner]

Ev(op, h) == [op |-> op, h |-> h]

\* GetCursorKindStr returns a pointer and has acquired/disposed handles.
GetCursorKindStr(kind) ==
  IF kind \in KindTableTags
    THEN [ptr |-> CStr(KindLabel(kind), "static"), ev |-> <<>>]
    ELSE [ptr |-> CStr(KindSpelling(kind), "ks"),
          ev  |-> <<Ev("get", "ks"), Ev("cstr", "ks"), Ev("dispose", "ks")>>]

\* Has handle h been disposed by the events ev?
Disposed(ev, h) == \E i \in 1..Len(ev) : ev[i] = Ev("dispose", h)

\* What String::New(env, p) can copy out of pointer p after the events ev:
\* the text while the owning handle is alive; once it is disposed the
\* pointer dangles and the read is undefined (the old text, nothing, or
\* other bytes).
GarbageText == "\\xfe\\xfe"
ReadOutcomes(p, ev) ==
  IF p.owner = "static" \/ ~Disposed(ev, p.owner)
    THEN {p.text}
    ELSE {p.text, "", GarbageText}

\* A record without fields; Opt adds a field group only when present.
NoFields == [x \in {} |-> x]
Opt(present, rec) == IF present THEN rec ELSE NoFields

\* The events of `CXString h = ...; String::New(env, clang_getCString(h));
\* clang_disposeString(h);`
CopyThenDispose(h) == <<Ev("get", h), Ev("cstr", h), Ev("read", h), Ev("dispose", h)>>

\* -------------------------------------------------------- CreateLocation
UIntMax == 2 ^ UIntBits - 1
LongLongBits == 2 * UIntBits

\* (long long)u of an unsigned u keeps the value.
ToLongLong(u) == u
\* Two's complement wrap of a long long result.
WrapLongLong(x) ==
  ((x + 2 ^ (LongLongBits - 1)) % (2 ^ LongLongBits)) - 2 ^ (LongLongBits - 1)

TokLen_UnsignedSub(offset, endOffset) ==
  LET length == ToLongLong((endOffset - offset) % (2 ^ UIntBits))
  IN  IF length > 0 THEN length ELSE 0

TokLen(offset, endOffset) ==
  LET length == WrapLongLong(ToLongLong(endOffset) - ToLongLong(offset))
  IN  IF length > 0 THEN length ELSE 0

NoFile == "<no file>"

\* cur is what the parser reports for the cursor.
CreateLocation(cur) ==
  [obj |-> [line |-> cur.line, col |-> cur.col, offset |-> cur.offset,
            tokLen |-> TokLen(cur.offset, cur.endOffset)]
           @@ Opt(cur.file # NoFile, [file |-> cur.file]),
   ev  |-> IF cur.file # NoFile THEN CopyThenDispose("filename") ELSE <<>>]

\* -------------------------------------------------------- CreateTypeInfo
\* The parser's types: a builtin, two typedefs, an elaborated type (sugar
\* that is spelled like its canonical record type) and the record type.
CXType_Invalid == "Invalid"
Types == {"int", "myint_t", "S_t", "elaborated struct S", "record struct S"}

TypeSpelling(type) ==
  CASE type = "int" -> "int"
    [] type = "myint_t" -> "myint_t"
    [] type = "S_t" -> "S_t"
    [] type = "elaborated struct S" -> "struct S"
    [] type = "record struct S" -> "struct S"

CanonicalType(type) ==
  CASE type = "int" -> "int"
    [] type = "myint_t" -> "int"
    [] type = "S_t" -> "record struct S"
    [] type = "elaborated struct S" -> "record struct S"
    [] type = "record struct S" -> "record struct S"

\* clang_equalTypes: the same type, not the same spelling.
EqualTypes(a, b) == a = b

AddDesugared_BySpelling(type) ==
  TypeSpelling(CanonicalType(type)) # TypeSpelling(type)

\* The condition of line 284 under which desugaredQualType is set.
AddDesugared(type) == ~EqualTypes(type, CanonicalType(type))

\* pre prefixes the handle names ("" in Visit, "ref." for the referenced
\* declaration).
CreateTypeInfo(type, pre) ==
  [obj |-> [qualType |-> TypeSpelling(type)]
           @@ Opt(AddDesugared(type),
                  [desugaredQualType |-> TypeSpelling(CanonicalType(type))]),
   ev  |-> CopyThenDispose(pre \o "typeSpelling")
           \o (IF AddDesugared(type)
                 THEN CopyThenDispose(pre \o "canonSpelling") ELSE <<>>)]

\* ------------------------------------------------------------- the inputs
\* A JavaScript argument: a string, a number, or an array whose elements
\* are strings or numbers.
ArgElems == {"string", "number"}
ElemSeqs == UNION {[1..n -> ArgElems] : n \in 0..MaxArgs}
ArgValues ==
  {[t |-> "string", elems |-> <<>>], [t |-> "number", elems |-> <<>>]}
    \cup {[t |-> "array", elems |-> e] : e \in ElemSeqs}
ArgLists == UNION {[1..n -> ArgValues] : n \in 0..2}
GoodArgs == <<[t |-> "string", elems |-> <<>>], [t |-> "array", elems |-> <<"string">>]>>

\* What the parser reports for one cursor.
BaseCursor ==
  [isNull |-> FALSE, kind |-> CXCursor_StructDecl, lang |-> 1,
   usr |-> "c:@S@S", name |-> "S", line |-> 1, col |-> 1, offset |-> 0,
   endOffset |-> 1, file |-> "a.c", type |-> "record struct S",
   refNull |-> TRUE, refName |-> "", refType |-> CXType_Invalid]
NullCursor == [BaseCursor EXCEPT !.isNull = TRUE]
ObjCCursor == [BaseCursor EXCEPT !.kind = 11, !.lang = CXLanguage_ObjC]
DeclRefCursor ==
  [BaseCursor EXCEPT !.kind = CXCursor_DeclRefExpr, !.lang = 0,
                     !.usr = "", !.type = "int", !.refNull = FALSE,
                     !.refName = "x", !.refType = "myint_t"]
UnresolvedCallCursor ==
  [BaseCursor EXCEPT !.kind = CXCursor_CallExpr, !.lang = 0,
                     !.usr = "", !.type = "int"]
OMPCursor ==
  [BaseCursor EXCEPT !.kind = CXCursor_OMPParallelDirective,
                     !.lang = 0, !.usr = "",
                     !.type = CXType_Invalid]
TreeCursors ==
  {NullCursor, BaseCursor, ObjCCursor, DeclRefCursor, UnresolvedCallCursor, OMPCursor}

\* A translation unit: parent[c] is the parent of cursor c (0 is the
\* translation unit cursor); the children of a cursor are in increasing
\* order of c.  ok = FALSE is the null CXTranslationUnit.
NoUnit == [ok |-> FALSE, parent |-> <<>>, cur |-> <<>>]
CursorName(c) == "n" \o ToString(c)
Named(curs) == [c \in DOMAIN curs |-> [curs[c] EXCEPT !.name = CursorName(c)]]
Unit(parent, curs) == [ok |-> TRUE, parent |-> parent, cur |-> Named(curs)]

ParentSeqs(n) == {p \in [1..n -> 0..n] : \A c \in 1..n : p[c] < c}
Trees ==
  UNION {{Unit(p, q) : p \in ParentSeqs(n), q \in [1..n -> TreeCursors]}
           : n \in 0..MaxCursors}
WellFormed(u) ==
  \A c \in DOMAIN u.parent : u.parent[c] # 0 => ~u.cur[u.parent[c]].isNull

\* One-cursor units that range over every kind, over the offsets and over
\* the types.
Langs(kind) ==
  IF IsDeclarationKind(kind)
    THEN {1, CXLanguage_ObjC, 3}
    ELSE {0}
KindProbes ==
  UNION {{Unit(<<0>>, <<[DeclRefCursor EXCEPT !.kind = k, !.lang = l]>>)
            : l \in Langs(k)} : k \in AllKinds}
OffsetSamples ==
  {0, 1, 2 ^ (UIntBits - 1) - 1, 2 ^ (UIntBits - 1), UIntMax - 1, UIntMax}
LocProbes ==
  {Unit(<<0>>, <<[BaseCursor EXCEPT !.offset = o, !.endOffset = e, !.file = f]>>)
     : o \in OffsetSamples, e \in OffsetSamples, f \in {NoFile, "a.c"}}
TypeProbes ==
  {Unit(<<0>>, <<[DeclRefCursor EXCEPT !.type = t, !.refType = r]>>)
     : t \in Types \cup {CXType_Invalid}, r \in Types \cup {CXType_Invalid}}

Units ==
  {NoUnit} \cup {u \in Trees : WellFormed(u)}
    \cup KindProbes \cup LocProbes \cup TypeProbes
SmallUnits == {NoUnit, Unit(<<0>>, <<BaseCursor>>)}

NumCursors(u) == Len(u.parent)
Kids(u, p) == SelectSeq([i \in 1..NumCursors(u) |-> i], LAMBDA c : u.parent[c] = p)

\* ------------------------------------------------------------------ state
VARIABLES
  args,     \* the arguments of the call to getClangAST
  unit,     \* what clang_parseTranslationUnit yields for the named file
  pc,       \* "idle", "visiting" (inside clang_visitChildren), "returned", "error"
  stack,    \* the active clang_visitChildren calls, outermost first
  result,   \* <<>> until GetClangAST returns, then <<rootNodes>>
  err,      \* the message of the Error thrown to the caller, "" if none
  calls,    \* the libclang session calls GetClangAST has made, in order
  index,    \* the CXIndex: "none", "held", "disposed"
  tu,       \* the CXTranslationUnit: "none", "held", "disposed"
  outcome,  \* per cursor, how Visit left it ("unvisited" when never called)
  strlog    \* the CXString events of the latest Visit call

vars == <<args, unit, pc, stack, result, err, calls, index, tu, outcome, strlog>>

Init ==
  /\ \/ args \in ArgLists /\ unit \in SmallUnits
     \/ args = GoodArgs /\ unit \in Units
  /\ pc = "idle"
  /\ stack = <<>>
  /\ result = <<>>
  /\ err = ""
  /\ calls = <<>>
  /\ index = "none"
  /\ tu = "none"
  /\ outcome = [c \in 1..NumCursors(unit) |-> "unvisited"]
  /\ strlog = <<>>

\* ------------------------------------------------------------ GetClangAST
\* args[i] of a CallbackInfo: undefined beyond the arguments given.
Arg(a, i) == IF i <= Len(a) THEN a[i] ELSE [t |-> "undefined", elems |-> <<>>]

\* The condition of line 381.
BadShape(a) == Len(a) < 2 \/ Arg(a, 1).t # "string" \/ Arg(a, 2).t # "array"

Utf8ValueOk_Coerce(elem) == TRUE

\* rawClangArgs.Get(i).As<String>().Utf8Value() succeeds on a string only;
\* on any other value napi_get_value_string_utf8 fails and an Error is thrown.
Utf8ValueOk(elem) == elem = "string"

\* The loop of lines 393-397 runs to its end.
MarshalOk(a) == \A i \in 1..Len(Arg(a, 2).elems) : Utf8ValueOk(Arg(a, 2).elems[i])

Throw(msg) ==
  /\ pc' = "error"
  /\ err' = msg
  /\ stack' = <<>>
  /\ result' = <<>>

GetClangAST_BadArgs ==
  /\ pc = "idle"
  /\ BadShape(args)
  /\ Throw("Expected (filename: string, args: string[])")
  /\ UNCHANGED <<args, unit, calls, index, tu, outcome, strlog>>

GetClangAST_BadElement ==
  /\ pc = "idle"
  /\ ~BadShape(args)
  /\ ~MarshalOk(args)
  /\ Throw("A string was expected")
  /\ UNCHANGED <<args, unit, calls, index, tu, outcome, strlog>>

GetClangAST_ParseFail ==
  /\ pc = "idle"
  /\ ~BadShape(args)
  /\ MarshalOk(args)
  /\ ~unit.ok
  /\ calls' = <<"clang_createIndex", "clang_parseTranslationUnit">>
  /\ index' = "held"
  /\ Throw("Unable to parse translation unit")
  /\ UNCHANGED <<args, unit, tu, outcome, strlog>>

\* A clang_visitChildren call: cur is the cursor whose children are
\* visited, idx the next child, ctx the stack position of the frame whose
\* `inner` is the container of the VisitContext; node is the node under
\* construction that owns `inner` (hasNode is false for the root call).
Frame(cur, ctx, hasNode, node) ==
  [cur |-> cur, idx |-> 1, ctx |-> ctx, hasNode |-> hasNode, node |-> node,
   inner |-> <<>>]

GetClangAST_Parsed ==
  /\ pc = "idle"
  /\ ~BadShape(args)
  /\ MarshalOk(args)
  /\ unit.ok
  /\ calls' = <<"clang_createIndex", "clang_parseTranslationUnit",
                "clang_getTranslationUnitCursor", "clang_visitChildren">>
  /\ index' = "held"
  /\ tu' = "held"
  /\ stack' = <<Frame(0, 1, FALSE, NoFields)>>
  /\ pc' = "visiting"
  /\ UNCHANGED <<args, unit, result, err, outcome, strlog>>

GetClangAST_Return ==
  /\ pc = "visiting"
  /\ Len(stack) = 1
  /\ stack[1].idx > Len(Kids(unit, 0))
  /\ calls' = calls \o <<"clang_disposeTranslationUnit", "clang_disposeIndex">>
  /\ tu' = "disposed"
  /\ index' = "disposed"
  /\ result' = <<stack[1].inner>>
  /\ stack' = <<>>
  /\ pc' = "returned"
  /\ UNCHANGED <<args, unit, err, outcome, strlog>>

\* ------------------------------------------------------------------ Visit
Top == stack[Len(stack)]
HasNext ==
  /\ pc = "visiting"
  /\ stack # <<>>
  /\ Top.idx <= Len(Kids(unit, Top.cur))
NextCursor == Kids(unit, Top.cur)[Top.idx]
\* clang_visitChildren moves on to the next child.
Advance(s) == [s EXCEPT ![Len(s)].idx = @ + 1]

ExcludedOMP_NoSEHCarveOut(kind) ==
  \/ /\ kind >= CXCursor_OMPParallelDirective
     /\ kind <= CXCursor_OMPStripeDirective
     /\ kind # CXCursor_BuiltinBitCastExpr
  \/ kind = CXCursor_OMPArrayShapingExpr
  \/ kind = CXCursor_OMPIteratorExpr

\* The condition of line 308.
ExcludedOMP(kind) ==
  \/ /\ kind >= CXCursor_OMPParallelDirective
     /\ kind <= CXCursor_OMPStripeDirective
     /\ kind # CXCursor_SEHLeaveStmt
     /\ kind # CXCursor_BuiltinBitCastExpr
  \/ kind = CXCursor_OMPArrayShapingExpr
  \/ kind = CXCursor_OMPIteratorExpr

\* The condition of line 310.
ExcludedOpenACC(kind) ==
  kind >= CXCursor_OpenACCComputeConstruct /\ kind <= CXCursor_OpenACCCacheConstruct

\* Which early return of lines 304-313 Visit takes, "none" if it goes on.
FilterReason(cur) ==
  IF cur.isNull THEN "null"
  ELSE IF ExcludedOMP(cur.kind) THEN "omp"
  ELSE IF ExcludedOpenACC(cur.kind) THEN "openacc"
  ELSE IF cur.lang = CXLanguage_ObjC THEN "objc"
  ELSE "none"

FilteredVisitResult_Recurse == "CXChildVisit_Recurse"

\* What Visit returns to clang_visitChildren for a filtered cursor.
FilteredVisitResult == "CXChildVisit_Continue"

IsRefKind(kind) == kind = CXCursor_DeclRefExpr \/ kind = CXCursor_CallExpr

RefIsNull_Never(cur) == FALSE

\* clang_Cursor_isNull(clang_getCursorReferenced(cursor))
RefIsNull(cur) == cur.refNull

HasTag(kind) ==
  kind \in {CXCursor_StructDecl, CXCursor_UnionDecl, CXCursor_ClassDecl}
TagUsed(kind) ==
  CASE kind = CXCursor_StructDecl -> "struct"
    [] kind = CXCursor_UnionDecl -> "union"
    [] kind = CXCursor_ClassDecl -> "class"

\* Lines 351-362.
RefNode(cur) ==
  [name |-> cur.refName]
    @@ Opt(cur.refType # CXType_Invalid,
           [type |-> CreateTypeInfo(cur.refType, "ref.").obj])

\* Lines 315-363: the node before its children are visited; kindText is
\* what String::New read through the pointer GetCursorKindStr returned.
BuildNode(cur, kindText) ==
  [kind |-> kindText]
    @@ Opt(HasTag(cur.kind), [tagUsed |-> TagUsed(cur.kind)])
    @@ [id |-> cur.usr, name |-> cur.name, loc |-> CreateLocation(cur).obj]
    @@ Opt(cur.type # CXType_Invalid, [type |-> CreateTypeInfo(cur.type, "").obj])
    @@ Opt(IsRefKind(cur.kind), [referencedDecl |-> RefNode(cur)])

\* The CXString events of lines 317-341, then of lines 351-360.
HeadEvents(cur) ==
  LET ks == GetCursorKindStr(cur.kind)
  IN  ks.ev
        \o (IF ks.ptr.owner = "static" THEN <<>> ELSE <<Ev("read", ks.ptr.owner)>>)
        \o CopyThenDispose("usr")
        \o CopyThenDispose("name")
        \o CreateLocation(cur).ev
        \o (IF cur.type # CXType_Invalid THEN CreateTypeInfo(cur.type, "").ev ELSE <<>>)
RefEvents(cur) ==
  IF IsRefKind(cur.kind)
    THEN CopyThenDispose("refName")
           \o (IF cur.refType # CXType_Invalid
                 THEN CreateTypeInfo(cur.refType, "ref.").ev ELSE <<>>)
    ELSE <<>>

AppendNode_Front(container, node) == <<node>> \o container

\* Lines 371-372: container.Set(container.Length(), node).
AppendNode(container, node) == Append(container, node)

\* Early returns of lines 304-313.
VisitFiltered ==
  /\ HasNext
  /\ LET c == NextCursor
         why == FilterReason(unit.cur[c])
     IN  /\ why # "none"
         /\ outcome' = [outcome EXCEPT ![c] = why]
         /\ stack' = IF why = "null" \/ FilteredVisitResult = "CXChildVisit_Continue"
                       THEN Advance(stack)
                       ELSE Append(Advance(stack), Frame(c, Top.ctx, FALSE, NoFields))
  /\ strlog' = <<>>
  /\ UNCHANGED <<args, unit, pc, result, err, calls, index, tu>>

\* Line 348: the exception leaves Visit, clang_visitChildren and GetClangAST.
VisitThrow ==
  /\ HasNext
  /\ LET c == NextCursor
         cur == unit.cur[c]
     IN  /\ FilterReason(cur) = "none"
         /\ IsRefKind(cur.kind) /\ RefIsNull(cur)
         /\ outcome' = [outcome EXCEPT ![c] = "threw"]
         /\ strlog' = HeadEvents(cur)
  /\ Throw("Referenced cursor is null")
  /\ UNCHANGED <<args, unit, calls, index, tu>>

\* Lines 315-369: build the node and start visiting its children.
VisitEnter ==
  /\ HasNext
  /\ LET c == NextCursor
         cur == unit.cur[c]
         ks == GetCursorKindStr(cur.kind)
     IN  /\ FilterReason(cur) = "none"
         /\ ~(IsRefKind(cur.kind) /\ RefIsNull(cur))
         /\ \E kindText \in ReadOutcomes(ks.ptr, ks.ev) :
              stack' = Append(Advance(stack),
                              Frame(c, Len(stack) + 1, TRUE, BuildNode(cur, kindText)))
         /\ outcome' = [outcome EXCEPT ![c] = "building"]
         /\ strlog' = HeadEvents(cur) \o RefEvents(cur)
  /\ UNCHANGED <<args, unit, pc, result, err, calls, index, tu>>

\* Lines 371-374: the children are done; append the node to the container
\* of the VisitContext this Visit call was given.
VisitLeave ==
  /\ pc = "visiting"
  /\ Len(stack) > 1
  /\ Top.idx > Len(Kids(unit, Top.cur))
  /\ LET f == Top
         below == SubSeq(stack, 1, Len(stack) - 1)
         t == below[Len(below)].ctx
     IN  IF f.hasNode
           THEN /\ stack' = [below EXCEPT
                               ![t].inner = AppendNode(@, f.node @@ [inner |-> f.inner])]
                /\ outcome' = [outcome EXCEPT ![f.cur] = "emitted"]
           ELSE /\ stack' = below
                /\ UNCHANGED outcome
  /\ UNCHANGED <<args, unit, pc, result, err, calls, index, tu, strlog>>

Next ==
  \/ GetClangAST_BadArgs
  \/ GetClangAST_BadElement
  \/ GetClangAST_ParseFail
  \/ GetClangAST_Parsed
  \/ VisitFiltered
  \/ VisitThrow
  \/ VisitEnter
  \/ VisitLeave
  \/ GetClangAST_Return

Spec == Init /\ [][Next]_vars

\* ------------------------------------------------- vocabulary of the claims
RECURSIVE NodesOf(_)
\* Every node of a forest (a sequence of nodes with their `inner` forests).
NodesOf(s) ==
  IF s = <<>> THEN {}
  ELSE {Head(s)} \cup NodesOf(Head(s).inner) \cup NodesOf(Tail(s))

\* The nodes appended to some container so far, and those handed back.
FinishedNodes ==
  UNION {NodesOf(stack[i].inner) : i \in 1..Len(stack)}
    \cup (IF Len(result) = 1 THEN NodesOf(result[1]) ELSE {})

Cursors == 1..NumCursors(unit)
\* Cursor names are unique within a unit.
CursorOf(n) == CHOOSE c \in Cursors : unit.cur[c].name = n.name
CursorsOf(s) == [i \in 1..Len(s) |-> CursorOf(s[i])]

RECURSIVE Ancestors(_)
Ancestors(c) ==
  IF unit.parent[c] = 0 THEN {}
  ELSE {unit.parent[c]} \cup Ancestors(unit.parent[c])

Kept(c) == FilterReason(unit.cur[c]) = "none"
KeptKids(p) == SelectSeq(Kids(unit, p), Kept)
\* c is met by the traversal unless something aborts it first.
OnKeptPath(c) == \A a \in Ancestors(c) : Kept(a)
Visited(c) == outcome[c] # "unvisited"
Skipped(c) == outcome[c] \in {"omp", "openacc", "objc"}
Finished == pc \in {"returned", "error"}

\* ------------------------------------------------------------------ claims

\* C1: on every exit path of GetClangAST reached after the index was
\* created, the index has been disposed, and the translation unit too if
\* one was obtained.
C1_ReleasedOnEveryExit ==
  (Finished /\ index # "none") => (index = "disposed" /\ tu # "held")

\* C2: buildTree is all-or-nothing.  A node sequence is returned only by a
\* call whose parse gave a unit and whose traversal met no unresolved
\* DeclRefExpr/CallExpr and finished every cursor on its way; a parse
\* failure or an unresolved reference ends the call in an error with no
\* node sequence at all.
HasUnresolved ==
  \E c \in Cursors :
    /\ OnKeptPath(c) /\ Kept(c)
    /\ IsRefKind(unit.cur[c].kind)
    /\ unit.cur[c].refNull
C2_AllOrNothing ==
  /\ Len(result) = 1 =>
       /\ pc = "returned"
       /\ unit.ok
       /\ ~HasUnresolved
       /\ \A c \in Cursors : (OnKeptPath(c) /\ Kept(c)) => outcome[c] = "emitted"
  /\ (Finished /\ calls # <<>> /\ (~unit.ok \/ HasUnresolved)) =>
       (pc = "error" /\ err # "" /\ result = <<>>)
C2_Witness ==
  /\ pc = "error"
  /\ err = "Referenced cursor is null"
  /\ result = <<>>
  /\ \E c \in Cursors : outcome[c] = "emitted"

\* C3: the inner sequence of every emitted node, and the root sequence,
\* holds exactly one node per non-skipped child, in the children's order.
C3_OrderPreserved ==
  /\ \A n \in FinishedNodes : CursorsOf(n.inner) = KeptKids(CursorOf(n))
  /\ Len(result) = 1 => CursorsOf(result[1]) = KeptKids(0)
C3_Witness ==
  /\ Len(result) = 1
  /\ Len(Kids(unit, 0)) = 3
  /\ Len(result[1]) = 2
  /\ ~Kept(Kids(unit, 0)[2])

\* C4: a cursor skipped for its kind family or for Objective-C gets no
\* node, none of its descendants is visited or emitted, and its siblings
\* are still visited and emitted.
EmittedCursors == {CursorOf(n) : n \in FinishedNodes}
C4_SubtreeCut ==
  \A c \in Cursors : Skipped(c) =>
    /\ c \notin EmittedCursors
    /\ \A d \in Cursors : c \in Ancestors(d) =>
         (outcome[d] = "unvisited" /\ d \notin EmittedCursors)
    /\ pc = "returned" =>
         \A s \in Cursors : (unit.parent[s] = unit.parent[c]) =>
           /\ Visited(s)
           /\ Kept(s) => s \in EmittedCursors
C4_Witness ==
  /\ pc = "returned"
  /\ \E c, d, s \in Cursors :
       /\ Skipped(c)
       /\ unit.parent[d] = c /\ Kept(d)
       /\ s # c /\ unit.parent[s] = unit.parent[c] /\ outcome[s] = "emitted"

\* C5 as stated: in [OMPParallelDirective, OMPStripeDirective] a visited
\* cursor is emitted if its kind is BuiltinBitCastExpr and skipped for any
\* other kind.
InOMPRange(kind) ==
  kind >= CXCursor_OMPParallelDirective /\ kind <= CXCursor_OMPStripeDirective
VisitedInRange(c) ==
  Visited(c) /\ ~unit.cur[c].isNull /\ InOMPRange(unit.cur[c].kind)
IsEmitted(c) ==
  /\ outcome[c] \in {"building", "emitted"}
  /\ pc = "returned" => c \in EmittedCursors
C5_OnlyBitCastExempt ==
  \A c \in Cursors : VisitedInRange(c) =>
    IF unit.cur[c].kind = CXCursor_BuiltinBitCastExpr
      THEN IsEmitted(c) ELSE outcome[c] = "omp"

\* C5 amended: BuiltinBitCastExpr and SEHLeaveStmt are the two kinds of the
\* range that are emitted; every other kind of the range is skipped.
C5_TwoKindsExempt ==
  \A c \in Cursors : VisitedInRange(c) =>
    IF unit.cur[c].kind \in {CXCursor_BuiltinBitCastExpr, CXCursor_SEHLeaveStmt}
      THEN IsEmitted(c) ELSE outcome[c] = "omp"
C5_Witness ==
  /\ pc = "returned"
  /\ \E c \in Cursors :
       /\ unit.cur[c].kind = CXCursor_BuiltinBitCastExpr
       /\ c \in EmittedCursors

\* C6 as stated: a TypeInfo has desugaredQualType iff the canonical type's
\* spelling differs from qualType.
TypeInfos ==
  {<<unit.cur[CursorOf(n)].type, n.type>> :
     n \in {m \in FinishedNodes : "type" \in DOMAIN m}}
  \cup
  {<<unit.cur[CursorOf(n)].refType, n.referencedDecl.type>> :
     n \in {m \in FinishedNodes :
              /\ "referencedDecl" \in DOMAIN m
              /\ "type" \in DOMAIN m.referencedDecl}}
HasDesugared(info) == "desugaredQualType" \in DOMAIN info
C6_DesugaredIffSpellingDiffers ==
  \A ti \in TypeInfos :
    /\ ti[2].qualType = TypeSpelling(ti[1])
    /\ HasDesugared(ti[2]) <=> TypeSpelling(CanonicalType(ti[1])) # ti[2].qualType

\* C6 amended: a TypeInfo has desugaredQualType (the canonical type's
\* spelling) iff the type is not identical to its canonical type; so it is
\* present whenever the spellings differ, and also for a type that is not
\* its canonical type but is spelled like it.
C6_DesugaredIffNotCanonical ==
  \A ti \in TypeInfos :
    /\ ti[2].qualType = TypeSpelling(ti[1])
    /\ HasDesugared(ti[2]) <=> ti[1] # CanonicalType(ti[1])
    /\ HasDesugared(ti[2]) =>
         ti[2].desugaredQualType = TypeSpelling(CanonicalType(ti[1]))
    /\ TypeSpelling(CanonicalType(ti[1])) # ti[2].qualType => HasDesugared(ti[2])
C6_Witness ==
  \E ti \in TypeInfos :
    /\ HasDesugared(ti[2])
    /\ ti[2].desugaredQualType = ti[2].qualType

\* C7: tokLen is max(0, endOffset - offset) of the two unsigned offsets:
\* never negative, 0 when endOffset <= offset, never a wrapped difference.
C7_TokLen ==
  \A n \in FinishedNodes :
    LET cur == unit.cur[CursorOf(n)]
    IN  /\ n.loc.tokLen >= 0
        /\ cur.endOffset <= cur.offset => n.loc.tokLen = 0
        /\ cur.endOffset > cur.offset => n.loc.tokLen = cur.endOffset - cur.offset
C7_Witness ==
  \E n \in FinishedNodes :
    LET cur == unit.cur[CursorOf(n)]
    IN  cur.offset = UIntMax /\ cur.endOffset = 1 /\ n.loc.tokLen = 0

\* C8: the kind of every emitted node is a non-empty string: the table's
\* label for a tag of the table, the parser's spelling for any other tag.
C8_KindWellDefined ==
  \A n \in FinishedNodes :
    LET kind == unit.cur[CursorOf(n)].kind
    IN  /\ n.kind # ""
        /\ n.kind = (IF kind \in KindTableTags THEN KindLabel(kind)
                                               ELSE KindSpelling(kind))

\* C9: a call with fewer than two arguments, a first argument that is not
\* a string, a second that is not an array, or an array with a non-string
\* element fails with an error without any parser call.
InvalidInput(a) ==
  \/ Len(a) < 2
  \/ Arg(a, 1).t # "string"
  \/ Arg(a, 2).t # "array"
  \/ \E i \in 1..Len(Arg(a, 2).elems) : Arg(a, 2).elems[i] # "string"
C9_RejectedBeforeParser ==
  (InvalidInput(args) /\ pc # "idle") =>
    /\ pc = "error"
    /\ err # ""
    /\ calls = <<>>
    /\ index = "none"
    /\ tu = "none"
C9_Witness ==
  /\ pc = "error"
  /\ calls = <<>>
  /\ Len(args) = 2
  /\ args[1].t = "string"
  /\ args[2].t = "array"
  /\ args[2].elems = <<"string", "number">>

\* C10: every string handle of a Visit call is disposed exactly once and
\* no text is read through it after its disposal.
C10_NoUseAfterDispose ==
  \A h \in {strlog[i].h : i \in 1..Len(strlog)} :
    /\ Cardinality({i \in 1..Len(strlog) : strlog[i] = Ev("dispose", h)}) = 1
    /\ \A i, j \in 1..Len(strlog) :
         (strlog[i] = Ev("read", h) /\ strlog[j] = Ev("dispose", h)) => i < j
====
